---- MODULE Spec2Model ----
(***************************************************************************)
(* A model of the shuffling allocator (src/src/lib.rs), its lazy atomic    *)
(* cell (src/src/lazy_atomic_cell.rs) and its mutex                        *)
(* (src/src/pthread_mutex.rs).                                             *)
(*                                                                         *)
(* Threads call alloc and dealloc of one statically declared               *)
(* ShufflingAllocator.  Every access to shared memory (an atomic load, a  *)
(* compare-and-swap, a swap, a call of the underlying allocator, a lock    *)
(* or unlock of the mutex) is one step of the calling thread; thread-local *)
(* computation is folded into the step that follows it.                    *)
(*                                                                         *)
(* The underlying allocator hands out numbered blocks; mem maps each block *)
(* to the layout it was allocated with (NoLayout when free) and heap maps  *)
(* each block to the value stored in it.  It serves each thread from an    *)
(* arena of its own (as a thread-caching allocator does), lowest free      *)
(* block first, so a released block is handed out again, and it may fail   *)
(* (return null) at any call.                                              *)
(***************************************************************************)
EXTENDS Integers, Sequences, FiniteSets, TLC

\* ------------------------------------------------------------------ bounds
\* Number of threads calling the allocator.
NumThreads == 2
\* Calls of alloc/dealloc made in one behaviour.
MaxOps == 3
\* Largest request size the classification specification draws.
MaxSize == 7160
\* Iterations of the allocate-and-free loop of the loop specification.
MaxIter == 3
\* Slots per shuffling array.  The program's value is 256 (src/src/lib.rs:80);
\* the model takes a small array so that the slot contents can be enumerated,
\* and every statement that speaks of 256 is stated with this name.
SHUFFLING_ARRAY_SIZE == 2

\* ------------------------------------------------------- program constants
NUM_SIZE_CLASSES == 32
\* mem::size_of::<usize>() and mem::align_of::<usize>() on a 64-bit target.
size_of_usize == 8
align_of_usize == 8
\* libc::pthread_mutex_t and rand's StdRng are defined outside this
\* repository; these are their sizes on x86-64 Linux (StdRng is aligned to
\* two words there).
size_of_pthread_mutex_t == 40
size_of_StdRng == 320

Threads == 1..NumThreads
\* Blocks per thread arena of the underlying allocator: enough for every
\* allocation a thread can make (state record, mutex and class table, two
\* arrays with their slots, one block per call), so that the arena never
\* decides whether an allocation fails.
BlocksPerThread == 3 + 2 * (1 + SHUFFLING_ARRAY_SIZE) + MaxOps
Blocks == 1..(NumThreads * BlocksPerThread)
NULL == 0
Slots == 0..(SHUFFLING_ARRAY_SIZE - 1)
ClassIndexes == 0..(NUM_SIZE_CLASSES - 1)

\* ----------------------------------------------------------------- layouts
\* A Layout is (size, align); `of` records what the block is allocated for
\* ("bytes" for a caller's or a slot's block, else the bookkeeping type).
Layout(size, align) == [of |-> "bytes", size |-> size, align |-> align]
\* mem::size_of::<T>() of the bookkeeping types, from their fields: a
\* LazyAtomicCell is a pointer and a reference, SizeClasses is 32 of them, a
\* ShufflingArray is its slots, a usize and a reference, a State is a Mutex
\* (pointer, StdRng, reference) and a LazyAtomicCell.
size_of(T) ==
    CASE T = "State" -> size_of_StdRng + 4 * size_of_usize
      [] T = "pthread_mutex_t" -> size_of_pthread_mutex_t
      [] T = "SizeClasses" -> NUM_SIZE_CLASSES * 2 * size_of_usize
      [] T = "ShufflingArray" -> (SHUFFLING_ARRAY_SIZE + 2) * size_of_usize
\* mem::align_of::<T>()
align_of(T) ==
    CASE T = "State" -> 2 * align_of_usize
      [] OTHER -> align_of_usize
\* Layout::new::<T>()
LayoutNew(T) == [of |-> T, size |-> size_of(T), align |-> align_of(T)]
NoLayout == [of |-> "free", size |-> 0, align |-> 0]

\* Option<SizeClassInfo>::None
None == [index |-> -1, size_class |-> 0]
SizeClassInfo(index, size_class) == [index |-> index, size_class |-> size_class]

\* size_class_step with the comparison `size < size_class`
RECURSIVE size_class_step_lt(_, _, _, _)
size_class_step_lt(size, index, size_class, stride) ==
    IF index = NUM_SIZE_CLASSES THEN None
    ELSE IF size < size_class THEN SizeClassInfo(index, size_class)
    ELSE size_class_step_lt(size, index + 1, size_class + stride,
                            IF index % 4 = 3 THEN stride * 2 ELSE stride)

\* size_class_step without the test of the last class
RECURSIVE size_class_step_short(_, _, _, _)
size_class_step_short(size, index, size_class, stride) ==
    IF index = NUM_SIZE_CLASSES - 1 THEN None
    ELSE IF size <= size_class THEN SizeClassInfo(index, size_class)
    ELSE size_class_step_short(size, index + 1, size_class + stride,
                               IF index % 4 = 3 THEN stride * 2 ELSE stride)

\* size_class_step with the stride doubled one class early
RECURSIVE size_class_step_early(_, _, _, _)
size_class_step_early(size, index, size_class, stride) ==
    IF index = NUM_SIZE_CLASSES THEN None
    ELSE IF size <= size_class THEN SizeClassInfo(index, size_class)
    ELSE size_class_step_early(size, index + 1, size_class + stride,
                               IF index % 4 = 2 THEN stride * 2 ELSE stride)

\* The straight-line code of size_class_info: test class `index`, else add the
\* stride, and double the stride after every fourth class.
RECURSIVE size_class_step(_, _, _, _)
size_class_step(size, index, size_class, stride) ==
    IF index = NUM_SIZE_CLASSES THEN None
    ELSE IF size <= size_class THEN SizeClassInfo(index, size_class)
    ELSE size_class_step(size, index + 1, size_class + stride,
                         IF index % 4 = 3 THEN stride * 2 ELSE stride)

\* size_class_info that classifies one byte less than the size
size_class_info_offByOne(size) ==
    size_class_step(size - 1, 0, size_of_usize, size_of_usize)

\* size_class_info that reports the requested size as the class's size
size_class_info_request(size) ==
    LET r == size_class_step(size, 0, size_of_usize, size_of_usize) IN
    IF r = None THEN None ELSE SizeClassInfo(r.index, size)

size_class_info(size) == size_class_step(size, 0, size_of_usize, size_of_usize)

\* The layouts callers request in the concurrent specification: a small
\* class-2 request, a request of exactly class 31's size, one byte more
\* (no class), and an over-aligned request.
RequestLayouts ==
    { Layout(17, 8), Layout(7144, 8), Layout(7145, 8), Layout(1, 32) }

VARIABLES
    pc,            \* pc[t]: where thread t is in its call
    frame,         \* frame[t]: the locals of thread t's call
    mem,           \* underlying allocator: block -> layout it was allocated with
    heap,          \* block -> value stored in it
    state,         \* ShufflingAllocator.state.ptr, the state cell's pointer
    held,          \* allocations callers own: records [ptr, layout]
    calls,         \* calls of alloc/dealloc started so far
    N,             \* completed shuffle-path allocs that returned a block
    M,             \* completed shuffle-path deallocs
    classes_used,  \* class indexes some shuffle-path call has asked for
    returned,      \* [ptr, index]: pointers shuffle-path allocs have returned
    aborted,       \* handle_alloc_error was taken
    cl_size,       \* classification specification: the input size
    cl_out,        \* classification specification: size_class_info's result
    cl_pc          \* classification specification: "in" before, "out" after


vars == <<pc, frame, mem, heap, state, held, calls, N, M, classes_used,
          returned, aborted, cl_size, cl_out, cl_pc>>
cl_vars == <<cl_size, cl_out, cl_pc>>
ghost_vars == <<calls, N, M, classes_used, returned>>


\* ------------------------------------------------------------ heap values
NoObject == [type |-> "none"]
\* libc::pthread_mutex_t; owner is the thread that holds the lock, 0 when free.
MutexObject(owner) == [type |-> "pthread_mutex_t", owner |-> owner]
\* State { rng: Mutex { inner, .. }, size_classes: LazyAtomicCell { ptr, .. } }
StateObject(inner, ptr) ==
    [type |-> "State", rng |-> inner, size_classes |-> ptr]
\* SizeClasses([LazyAtomicCell; NUM_SIZE_CLASSES]), every cell empty
SizeClassesObject ==
    [type |-> "SizeClasses", cells |-> [i \in ClassIndexes |-> NULL]]
\* ShufflingArray { elems, size_class, .. }; a slot not yet written reads NULL
ShufflingArrayObject(size_class) ==
    [type |-> "ShufflingArray", elems |-> [i \in Slots |-> NULL],
     size_class |-> size_class]

\* ShufflingArray::elem_layout (and the same layout in new and drop)
elem_layout(array) == Layout(heap[array].size_class, align_of_usize)

\* ---------------------------------------------------- underlying allocator
Min(S) == CHOOSE x \in S : \A y \in S : x <= y
Arena(t) == ((t - 1) * BlocksPerThread + 1)..(t * BlocksPerThread)
FreeBlocks(t) == {b \in Arena(t) : mem[b] = NoLayout}
\* What inner.alloc may return to thread t: NULL (failure, the only outcome
\* once its arena is used up) or a block that is not outstanding.
InnerAllocResults(t) ==
    {NULL} \cup (IF FreeBlocks(t) = {} THEN {} ELSE {Min(FreeBlocks(t))})
\* mem after inner.alloc(layout) returned p
InnerAlloc(p, layout) ==
    IF p \in Blocks THEN [mem EXCEPT ![p] = layout] ELSE mem
\* mem after inner.dealloc(p, _)
InnerDealloc(p) ==
    IF p \in Blocks THEN [mem EXCEPT ![p] = NoLayout] ELSE mem
\* the contents of a released block are gone
HeapRelease(h, p) ==
    IF p \in Blocks THEN [h EXCEPT ![p] = NoObject] ELSE h

\* ------------------------------------------------------------------ frames
EmptyFrame ==
    [op |-> "none", layout |-> NoLayout, ptr |-> NULL, info |-> None,
     cell |-> "none", cont |-> "none",
     state |-> NULL, size_classes |-> NULL, array |-> NULL,
     new_ptr |-> NULL, existing_ptr |-> NULL, i |-> 0,
     replacement_ptr |-> NULL, index |-> -1, old_ptr |-> NULL, ret |-> NULL,
     published |-> {}, replacement_failed |-> FALSE]

\* The T of the LazyAtomicCell<A, T> that frame f's get_or_create runs on.
CellType(f) ==
    CASE f.cell = "state" -> "State"
      [] f.cell = "size_classes" -> "SizeClasses"
      [] f.cell = "array" -> "ShufflingArray"

\* self.ptr of that cell: the allocator's state cell, the size_classes cell
\* inside the State, or cell `index` of the SizeClasses table.
CellPtr(f) ==
    CASE f.cell = "state" -> state
      [] f.cell = "size_classes" -> heap[f.state].size_classes
      [] f.cell = "array" -> heap[f.size_classes].cells[f.info.index]

Init ==
    /\ pc = [t \in Threads |-> "idle"]
    /\ frame = [t \in Threads |-> EmptyFrame]
    /\ mem = [b \in Blocks |-> NoLayout]
    /\ heap = [b \in Blocks |-> NoObject]
    /\ state = NULL
    /\ held = {}
    /\ calls = 0
    /\ N = 0
    /\ M = 0
    /\ classes_used = {}
    /\ returned = {}
    /\ aborted = FALSE
    /\ cl_size = 0
    /\ cl_out = None
    /\ cl_pc = "out"


\* ----------------------------------------------------------------- helpers
Goto(t, label) == pc' = [pc EXCEPT ![t] = label]
SetFrame(t, f) == frame' = [frame EXCEPT ![t] = f]

\* get_or_create returns the reference r: the frame of the caller, which is
\* state() (called by size_classes() or by random_index()), size_classes()
\* or shuffling_array(), set up for what that caller does next.
GocReturnFrame(f, r) ==
    LET g == [f EXCEPT !.new_ptr = NULL, !.existing_ptr = NULL, !.i = 0] IN
    CASE f.cell = "state" ->
            IF f.cont = "size_classes"
            THEN [g EXCEPT !.state = r, !.cell = "size_classes"]
            ELSE [g EXCEPT !.state = r, !.cell = "none"]
      [] f.cell = "size_classes" ->
            [g EXCEPT !.size_classes = r, !.cell = "array"]
      [] f.cell = "array" ->
            IF f.op = "alloc"
            THEN [g EXCEPT !.array = r, !.cell = "none"]
            ELSE [g EXCEPT !.array = r, !.cell = "state",
                           !.cont = "random_index"]

GocReturnPc(f) ==
    CASE f.cell = "state" ->
            IF f.cont = "size_classes" THEN "goc_load" ELSE "lock"
      [] f.cell = "size_classes" -> "goc_load"
      [] f.cell = "array" ->
            IF f.op = "alloc" THEN "alloc_replacement" ELSE "goc_load"

\* Dispatch without the test of the alignment
Dispatch_noAlign(t, bypass) ==
    LET f == frame[t]
        info == size_class_info(f.layout.size) IN
    IF info = None
    THEN /\ Goto(t, bypass)
         /\ UNCHANGED <<frame, classes_used>>
    ELSE /\ Goto(t, "goc_load")
         /\ SetFrame(t, [f EXCEPT !.info = info, !.cell = "state",
                                  !.cont = "size_classes"])
         /\ classes_used' = classes_used \cup {info.index}

\* The dispatch both alloc and dealloc make on the layout: the bypass for an
\* alignment above a word or a size with no class, else shuffling_array(),
\* which starts with size_classes() and so with state().
Dispatch(t, bypass) ==
    LET f == frame[t]
        info == size_class_info(f.layout.size) IN
    IF f.layout.align > align_of_usize \/ info = None
    THEN /\ Goto(t, bypass)
         /\ UNCHANGED <<frame, classes_used>>
    ELSE /\ Goto(t, "goc_load")
         /\ SetFrame(t, [f EXCEPT !.info = info, !.cell = "state",
                                  !.cont = "size_classes"])
         /\ classes_used' = classes_used \cup {info.index}

\* InnerAllocCall with the caller's layout for the replacement block
InnerAllocCall_callerLayout(t) ==
    LET f == frame[t] IN
    CASE pc[t] = "alloc_bypass" -> f.layout
      [] pc[t] = "alloc_replacement" -> f.layout
      [] pc[t] = "goc_alloc" -> LayoutNew(CellType(f))
      [] pc[t] = "goc_init" /\ f.cell = "state" -> LayoutNew("pthread_mutex_t")
      [] pc[t] = "goc_init" /\ f.cell = "array" -> elem_layout(f.new_ptr)
      [] OTHER -> NoLayout

\* The layout of the call of the underlying allocator's alloc that thread t
\* is about to make: the caller's in the bypass of alloc, the class's for the
\* replacement block and for the blocks of a new ShufflingArray's slots,
\* Layout::new::<T>() for the storage of a cell's value and for the mutex's
\* pthread_mutex_t.
InnerAllocCall(t) ==
    LET f == frame[t] IN
    CASE pc[t] = "alloc_bypass" -> f.layout
      [] pc[t] = "alloc_replacement" -> elem_layout(f.array)
      [] pc[t] = "goc_alloc" -> LayoutNew(CellType(f))
      [] pc[t] = "goc_init" /\ f.cell = "state" -> LayoutNew("pthread_mutex_t")
      [] pc[t] = "goc_init" /\ f.cell = "array" -> elem_layout(f.new_ptr)
      [] OTHER -> NoLayout

\* ------------------------------------------------------------------- alloc
\* A caller calls alloc(layout).
AllocCall(t, layout) ==
    /\ ~aborted
    /\ pc[t] = "idle"
    /\ calls < MaxOps
    /\ calls' = calls + 1
    /\ Goto(t, "alloc")
    /\ SetFrame(t, [EmptyFrame EXCEPT !.op = "alloc", !.layout = layout])
    /\ UNCHANGED <<mem, heap, state, held, N, M, classes_used, returned, aborted, cl_vars>>

AllocEntry(t) ==
    /\ pc[t] = "alloc"
    /\ Dispatch(t, "alloc_bypass")
    /\ UNCHANGED <<mem, heap, state, held, calls, N, M, returned, aborted, cl_vars>>

\* self.inner.alloc(layout) of the two bypass branches
AllocBypass(t) ==
    /\ pc[t] = "alloc_bypass"
    /\ \E p \in InnerAllocResults(t) :
          /\ mem' = InnerAlloc(p, InnerAllocCall(t))
          /\ SetFrame(t, [frame[t] EXCEPT !.ret = p])
    /\ Goto(t, "alloc_ret")
    /\ UNCHANGED <<heap, state, held, ghost_vars, aborted, cl_vars>>

\* AllocReplacement with the caller's layout for the replacement
AllocReplacement_callerLayout(t) ==
    /\ pc[t] = "alloc_replacement"
    /\ \E p \in InnerAllocResults(t) :
          /\ mem' = InnerAlloc(p, frame[t].layout)
          /\ IF p = NULL
             THEN /\ SetFrame(t, [frame[t] EXCEPT !.ret = NULL,
                                       !.replacement_failed = TRUE])
                  /\ Goto(t, "alloc_ret")
             ELSE /\ SetFrame(t, [frame[t] EXCEPT !.replacement_ptr = p,
                                       !.cell = "state",
                                       !.cont = "random_index"])
                  /\ Goto(t, "goc_load")
    /\ UNCHANGED <<heap, state, held, ghost_vars, aborted, cl_vars>>

\* AllocReplacement without the test for null: a null replacement is swapped
\* in like any other
AllocReplacement_noNullCheck(t) ==
    /\ pc[t] = "alloc_replacement"
    /\ \E p \in InnerAllocResults(t) :
          /\ mem' = InnerAlloc(p, elem_layout(frame[t].array))
          /\ SetFrame(t, [frame[t] EXCEPT !.replacement_ptr = p,
                               !.replacement_failed = (p = NULL),
                               !.cell = "state", !.cont = "random_index"])
          /\ Goto(t, "goc_load")
    /\ UNCHANGED <<heap, state, held, ghost_vars, aborted, cl_vars>>

\* let replacement_ptr = self.inner.alloc(array.elem_layout()); null returns
\* null, else random_index() follows, which starts with state().
AllocReplacement(t) ==
    /\ pc[t] = "alloc_replacement"
    /\ \E p \in InnerAllocResults(t) :
          /\ mem' = InnerAlloc(p, InnerAllocCall(t))
          /\ IF p = NULL
             THEN /\ SetFrame(t, [frame[t] EXCEPT !.ret = NULL,
                                       !.replacement_failed = TRUE])
                  /\ Goto(t, "alloc_ret")
             ELSE /\ SetFrame(t, [frame[t] EXCEPT !.replacement_ptr = p,
                                       !.cell = "state",
                                       !.cont = "random_index"])
                  /\ Goto(t, "goc_load")
    /\ UNCHANGED <<heap, state, held, ghost_vars, aborted, cl_vars>>

\* AllocSwap with the slot loaded and the replacement never stored
AllocSwap_load(t) ==
    /\ pc[t] = "alloc_swap"
    /\ LET f == frame[t] IN
          SetFrame(t, [f EXCEPT !.ret = heap[f.array].elems[f.index]])
    /\ Goto(t, "alloc_ret")
    /\ UNCHANGED <<mem, heap, state, held, ghost_vars, aborted, cl_vars>>

\* AllocSwap that takes the pointer out of the slot and leaves null there
AllocSwap_takeOut(t) ==
    /\ pc[t] = "alloc_swap"
    /\ LET f == frame[t] IN
          /\ heap' = [heap EXCEPT ![f.array].elems[f.index] = NULL]
          /\ SetFrame(t, [f EXCEPT !.ret = heap[f.array].elems[f.index]])
    /\ Goto(t, "alloc_ret")
    /\ UNCHANGED <<mem, state, held, ghost_vars, aborted, cl_vars>>

\* AllocSwap that returns the replacement and leaves the slot as it is
AllocSwap_fresh(t) ==
    /\ pc[t] = "alloc_swap"
    /\ SetFrame(t, [frame[t] EXCEPT !.ret = frame[t].replacement_ptr])
    /\ Goto(t, "alloc_ret")
    /\ UNCHANGED <<mem, heap, state, held, ghost_vars, aborted, cl_vars>>

\* array.elems[index].swap(replacement_ptr, SeqCst), the value alloc returns
AllocSwap(t) ==
    /\ pc[t] = "alloc_swap"
    /\ LET f == frame[t] IN
          /\ heap' = [heap EXCEPT ![f.array].elems[f.index] = f.replacement_ptr]
          /\ SetFrame(t, [f EXCEPT !.ret = heap[f.array].elems[f.index]])
    /\ Goto(t, "alloc_ret")
    /\ UNCHANGED <<mem, state, held, ghost_vars, aborted, cl_vars>>

\* alloc returns: a non-null pointer now belongs to the caller.
AllocReturn(t) ==
    /\ pc[t] = "alloc_ret"
    /\ LET f == frame[t] IN
          /\ held' = IF f.ret = NULL THEN held
                     ELSE held \cup {[ptr |-> f.ret, layout |-> f.layout]}
          /\ N' = IF f.ret # NULL /\ f.array # NULL THEN N + 1 ELSE N
          /\ returned' = IF f.ret # NULL /\ f.array # NULL
                         THEN returned \cup {[ptr |-> f.ret,
                                              index |-> f.info.index]}
                         ELSE returned
    /\ Goto(t, "idle")
    /\ SetFrame(t, EmptyFrame)
    /\ UNCHANGED <<mem, heap, state, calls, M, classes_used, aborted, cl_vars>>


\* InnerDeallocCall with the caller's layout for the displaced pointer
InnerDeallocCall_callerLayout(t) ==
    LET f == frame[t] IN
    CASE pc[t] = "dealloc_bypass" -> [ptr |-> f.ptr, layout |-> f.layout]
      [] pc[t] = "dealloc_free" -> [ptr |-> f.old_ptr, layout |-> f.layout]
      [] pc[t] = "goc_drop" /\ f.cell = "state" ->
            [ptr |-> heap[f.new_ptr].rng,
             layout |-> LayoutNew("pthread_mutex_t")]
      [] pc[t] = "goc_drop" /\ f.cell = "array" ->
            [ptr |-> heap[f.new_ptr].elems[f.i],
             layout |-> elem_layout(f.new_ptr)]
      [] pc[t] = "goc_dealloc" ->
            [ptr |-> f.new_ptr, layout |-> LayoutNew(CellType(f))]
      [] OTHER -> [ptr |-> NULL, layout |-> NoLayout]

\* The call of the underlying allocator's dealloc that thread t is about to
\* make, [ptr, layout]: the bypass of dealloc, the displaced pointer of a
\* shuffled dealloc, the mutex of a dropped State, slot i of a dropped
\* ShufflingArray (no call when the slot is null), the storage of the value
\* that lost the race.
InnerDeallocCall(t) ==
    LET f == frame[t] IN
    CASE pc[t] = "dealloc_bypass" -> [ptr |-> f.ptr, layout |-> f.layout]
      [] pc[t] = "dealloc_free" ->
            [ptr |-> f.old_ptr, layout |-> elem_layout(f.array)]
      [] pc[t] = "goc_drop" /\ f.cell = "state" ->
            [ptr |-> heap[f.new_ptr].rng,
             layout |-> LayoutNew("pthread_mutex_t")]
      [] pc[t] = "goc_drop" /\ f.cell = "array" ->
            [ptr |-> heap[f.new_ptr].elems[f.i],
             layout |-> elem_layout(f.new_ptr)]
      [] pc[t] = "goc_dealloc" ->
            [ptr |-> f.new_ptr, layout |-> LayoutNew(CellType(f))]
      [] OTHER -> [ptr |-> NULL, layout |-> NoLayout]

\* ------------------------------------------------- LazyAtomicCell::get_or_create
\* handle_alloc_error(layout): the process ends, and its memory with it.
HandleAllocError ==
    /\ aborted' = TRUE
    /\ pc' = [t \in Threads |-> "idle"]
    /\ frame' = [t \in Threads |-> EmptyFrame]
    /\ mem' = [b \in Blocks |-> NoLayout]
    /\ heap' = [b \in Blocks |-> NoObject]
    /\ state' = NULL
    /\ held' = {}
    /\ calls' = 0
    /\ N' = 0
    /\ M' = 0
    /\ classes_used' = {}
    /\ returned' = {}
    /\ UNCHANGED cl_vars

\* GocLoad without the return of the pointer it loaded: every call goes on to
\* create a value
GocLoad_noFastPath(t) ==
    /\ pc[t] = "goc_load"
    /\ Goto(t, "goc_alloc")
    /\ UNCHANGED frame
    /\ UNCHANGED <<mem, heap, state, held, ghost_vars, aborted, cl_vars>>

\* let ptr = self.ptr.load(SeqCst); if !ptr.is_null() { return &*ptr }
GocLoad(t) ==
    /\ pc[t] = "goc_load"
    /\ LET f == frame[t]
           ptr == CellPtr(f) IN
          IF ptr # NULL
          THEN /\ SetFrame(t, GocReturnFrame(f, ptr))
               /\ Goto(t, GocReturnPc(f))
          ELSE /\ Goto(t, "goc_alloc")
               /\ UNCHANGED frame
    /\ UNCHANGED <<mem, heap, state, held, ghost_vars, aborted, cl_vars>>

\* let new_ptr = self.allocator.alloc(Layout::new::<T>()), null aborts.  The
\* init of SizeClasses (32 empty cells) touches nothing shared and is folded
\* in; State's init allocates the mutex and ShufflingArray::new allocates the
\* slots' blocks, which are the steps of GocInit.
GocAlloc(t) ==
    /\ pc[t] = "goc_alloc"
    /\ LET f == frame[t] IN
       \E p \in InnerAllocResults(t) :
          IF p = NULL
          THEN HandleAllocError
          ELSE /\ mem' = InnerAlloc(p, InnerAllocCall(t))
               /\ SetFrame(t, [f EXCEPT !.new_ptr = p, !.i = 0])
               /\ heap' = [heap EXCEPT ![p] =
                             CASE f.cell = "state" -> NoObject
                               [] f.cell = "size_classes" -> SizeClassesObject
                               [] f.cell = "array" ->
                                    ShufflingArrayObject(f.info.size_class)]
               /\ Goto(t, IF f.cell = "size_classes" THEN "goc_cas"
                          ELSE "goc_init")
               /\ UNCHANGED <<state, held, ghost_vars, aborted, cl_vars>>

\* ptr::write(new_ptr, init()).  For the state cell init is Mutex::new, which
\* allocates the pthread_mutex_t; for a class cell it is ShufflingArray::new,
\* one step per iteration of its loop: p = allocator.alloc(layout), null
\* aborts, else elems[i] = p.
GocInit(t) ==
    /\ pc[t] = "goc_init"
    /\ LET f == frame[t] IN
       \E p \in InnerAllocResults(t) :
          IF p = NULL
          THEN HandleAllocError
          ELSE /\ UNCHANGED <<state, held, ghost_vars, aborted, cl_vars>>
               /\ IF f.cell = "state"
                  THEN /\ mem' = InnerAlloc(p, InnerAllocCall(t))
                       /\ heap' = [heap EXCEPT ![p] = MutexObject(0),
                                     ![f.new_ptr] = StateObject(p, NULL)]
                       /\ Goto(t, "goc_cas")
                       /\ UNCHANGED frame
                  ELSE /\ mem' = InnerAlloc(p, InnerAllocCall(t))
                       /\ heap' = [heap EXCEPT ![f.new_ptr].elems[f.i] = p]
                       /\ IF f.i + 1 = SHUFFLING_ARRAY_SIZE
                          THEN /\ SetFrame(t, [f EXCEPT !.i = 0])
                               /\ Goto(t, "goc_cas")
                          ELSE /\ SetFrame(t, [f EXCEPT !.i = f.i + 1])
                               /\ UNCHANGED pc

\* self.ptr with new_ptr stored in it
CellStore(f) ==
    CASE f.cell = "state" ->
            /\ state' = f.new_ptr
            /\ UNCHANGED heap
      [] f.cell = "size_classes" ->
            /\ heap' = [heap EXCEPT ![f.state].size_classes = f.new_ptr]
            /\ UNCHANGED state
      [] f.cell = "array" ->
            /\ heap' = [heap EXCEPT
                          ![f.size_classes].cells[f.info.index] = f.new_ptr]
            /\ UNCHANGED state

\* GocCas whose loser releases the storage of its value without dropping it
GocCas_noDrop(t) ==
    /\ pc[t] = "goc_cas"
    /\ LET f == frame[t]
           existing_ptr == CellPtr(f) IN
          IF existing_ptr = NULL
          THEN /\ CellStore(f)
               /\ SetFrame(t, [GocReturnFrame(f, f.new_ptr) EXCEPT
                                  !.published = f.published \cup {f.cell}])
               /\ Goto(t, GocReturnPc(f))
          ELSE /\ SetFrame(t, [f EXCEPT !.existing_ptr = existing_ptr, !.i = 0])
               /\ Goto(t, "goc_dealloc")
               /\ UNCHANGED <<heap, state>>
    /\ UNCHANGED <<mem, held, ghost_vars, aborted, cl_vars>>

\* GocCas with a plain store in place of the compare-and-swap
GocCas_store(t) ==
    /\ pc[t] = "goc_cas"
    /\ LET f == frame[t] IN
          /\ CellStore(f)
          /\ SetFrame(t, [GocReturnFrame(f, f.new_ptr) EXCEPT
                             !.published = f.published \cup {f.cell}])
          /\ Goto(t, GocReturnPc(f))
    /\ UNCHANGED <<mem, held, ghost_vars, aborted, cl_vars>>

\* self.ptr.compare_and_swap(null, new_ptr, SeqCst): the winner returns
\* new_ptr, the loser goes on to drop its value.  Dropping a SizeClasses
\* drops 32 empty cells, which touches nothing shared.
GocCas(t) ==
    /\ pc[t] = "goc_cas"
    /\ LET f == frame[t]
           existing_ptr == CellPtr(f) IN
          IF existing_ptr = NULL
          THEN /\ CellStore(f)
               /\ SetFrame(t, [GocReturnFrame(f, f.new_ptr) EXCEPT
                                  !.published = f.published \cup {f.cell}])
               /\ Goto(t, GocReturnPc(f))
          ELSE /\ SetFrame(t, [f EXCEPT !.existing_ptr = existing_ptr, !.i = 0])
               /\ Goto(t, IF f.cell = "size_classes" THEN "goc_dealloc"
                          ELSE "goc_drop")
               /\ UNCHANGED <<heap, state>>
    /\ UNCHANGED <<mem, held, ghost_vars, aborted, cl_vars>>

\* GocDrop whose drop of a ShufflingArray stops after the first slot
GocDrop_firstSlot(t) ==
    /\ pc[t] = "goc_drop"
    /\ LET f == frame[t] IN
          IF f.cell = "state"
          THEN /\ mem' = InnerDealloc(InnerDeallocCall(t).ptr)
               /\ heap' = HeapRelease(heap, InnerDeallocCall(t).ptr)
               /\ Goto(t, "goc_dealloc")
               /\ UNCHANGED frame
          ELSE LET p == InnerDeallocCall(t).ptr IN
               /\ mem' = IF p # NULL THEN InnerDealloc(p) ELSE mem
               /\ heap' = [heap EXCEPT ![f.new_ptr].elems[f.i] = NULL]
               /\ SetFrame(t, [f EXCEPT !.i = 0])
               /\ Goto(t, "goc_dealloc")
    /\ UNCHANGED <<state, held, ghost_vars, aborted, cl_vars>>

\* ptr::drop_in_place(new_ptr) of the loser.  A State drops its Mutex
\* (allocator.dealloc(inner, Layout::new::<pthread_mutex_t>())) and its empty
\* size_classes cell.  A ShufflingArray runs its Drop, one step per slot:
\* p = el.swap(null); if !p.is_null() { allocator.dealloc(p, layout) }.
GocDrop(t) ==
    /\ pc[t] = "goc_drop"
    /\ LET f == frame[t] IN
          IF f.cell = "state"
          THEN /\ mem' = InnerDealloc(InnerDeallocCall(t).ptr)
               /\ heap' = HeapRelease(heap, InnerDeallocCall(t).ptr)
               /\ Goto(t, "goc_dealloc")
               /\ UNCHANGED frame
          ELSE LET p == InnerDeallocCall(t).ptr IN
               /\ mem' = IF p # NULL THEN InnerDealloc(p) ELSE mem
               /\ heap' = [heap EXCEPT ![f.new_ptr].elems[f.i] = NULL]
               /\ IF f.i + 1 = SHUFFLING_ARRAY_SIZE
                  THEN /\ SetFrame(t, [f EXCEPT !.i = 0])
                       /\ Goto(t, "goc_dealloc")
                  ELSE /\ SetFrame(t, [f EXCEPT !.i = f.i + 1])
                       /\ UNCHANGED pc
    /\ UNCHANGED <<state, held, ghost_vars, aborted, cl_vars>>

\* GocDealloc whose loser, its storage released, creates a value again
\* instead of returning the winner's
GocDealloc_retry(t) ==
    /\ pc[t] = "goc_dealloc"
    /\ LET f == frame[t] IN
          /\ mem' = InnerDealloc(InnerDeallocCall(t).ptr)
          /\ heap' = HeapRelease(heap, InnerDeallocCall(t).ptr)
          /\ SetFrame(t, [f EXCEPT !.new_ptr = NULL, !.existing_ptr = NULL,
                                   !.i = 0])
          /\ Goto(t, "goc_alloc")
    /\ UNCHANGED <<state, held, ghost_vars, aborted, cl_vars>>

\* self.allocator.dealloc(new_ptr.cast(), layout); &*existing_ptr
GocDealloc(t) ==
    /\ pc[t] = "goc_dealloc"
    /\ LET f == frame[t] IN
          /\ mem' = InnerDealloc(InnerDeallocCall(t).ptr)
          /\ heap' = HeapRelease(heap, InnerDeallocCall(t).ptr)
          /\ SetFrame(t, GocReturnFrame(f, f.existing_ptr))
          /\ Goto(t, GocReturnPc(f))
    /\ UNCHANGED <<state, held, ghost_vars, aborted, cl_vars>>

\* ---------------------------------------------------------- random_index
\* RandomIndexLock that does not wait for the lock to be free
RandomIndexLock_noWait(t) ==
    /\ pc[t] = "lock"
    /\ LET inner == heap[frame[t].state].rng IN
          heap' = [heap EXCEPT ![inner] = MutexObject(t)]
    /\ Goto(t, "draw")
    /\ UNCHANGED <<frame, mem, state, held, ghost_vars, aborted, cl_vars>>

\* self.state().rng.lock(): pthread_mutex_lock blocks while the lock is held.
RandomIndexLock(t) ==
    /\ pc[t] = "lock"
    /\ LET inner == heap[frame[t].state].rng IN
          /\ heap[inner].owner = 0
          /\ heap' = [heap EXCEPT ![inner] = MutexObject(t)]
    /\ Goto(t, "draw")
    /\ UNCHANGED <<frame, mem, state, held, ghost_vars, aborted, cl_vars>>

\* RandomIndexDraw whose guard is not dropped as random_index returns
RandomIndexDraw_keepLock(t) ==
    /\ pc[t] = "draw"
    /\ \E index \in Slots : SetFrame(t, [frame[t] EXCEPT !.index = index])
    /\ Goto(t, IF frame[t].op = "alloc" THEN "alloc_swap" ELSE "dealloc_swap")
    /\ UNCHANGED <<mem, heap, state, held, ghost_vars, aborted, cl_vars>>

\* rng.gen_range(0..SHUFFLING_ARRAY_SIZE), then the guard is dropped
\* (pthread_mutex_unlock) as random_index returns.
RandomIndexDraw(t) ==
    /\ pc[t] = "draw"
    /\ LET inner == heap[frame[t].state].rng IN
          heap' = [heap EXCEPT ![inner] = MutexObject(0)]
    /\ \E index \in Slots : SetFrame(t, [frame[t] EXCEPT !.index = index])
    /\ Goto(t, IF frame[t].op = "alloc" THEN "alloc_swap" ELSE "dealloc_swap")
    /\ UNCHANGED <<mem, state, held, ghost_vars, aborted, cl_vars>>

\* ----------------------------------------------------------------- dealloc
\* A caller calls dealloc(ptr, layout): with a pointer it owns and the layout
\* it was allocated with, or with a null pointer.
DeallocCall(t, ptr, layout) ==
    /\ ~aborted
    /\ pc[t] = "idle"
    /\ calls < MaxOps
    /\ ptr = NULL \/ [ptr |-> ptr, layout |-> layout] \in held
    /\ calls' = calls + 1
    /\ held' = held \ {[ptr |-> ptr, layout |-> layout]}
    /\ Goto(t, "dealloc")
    /\ SetFrame(t, [EmptyFrame EXCEPT !.op = "dealloc", !.ptr = ptr,
                                      !.layout = layout])
    /\ UNCHANGED <<mem, heap, state, N, M, classes_used, returned, aborted, cl_vars>>

\* DeallocEntry without the test for a null pointer
DeallocEntry_noNullCheck(t) ==
    /\ pc[t] = "dealloc"
    /\ Dispatch(t, "dealloc_bypass")
    /\ UNCHANGED <<mem, heap, state, held, calls, N, M, returned, aborted, cl_vars>>

\* if ptr.is_null() { return }, then the dispatch on the layout
DeallocEntry(t) ==
    /\ pc[t] = "dealloc"
    /\ IF frame[t].ptr = NULL
       THEN /\ Goto(t, "dealloc_ret")
            /\ UNCHANGED <<frame, classes_used>>
       ELSE Dispatch(t, "dealloc_bypass")
    /\ UNCHANGED <<mem, heap, state, held, calls, N, M, returned, aborted, cl_vars>>

\* self.inner.dealloc(ptr, layout) of the two bypass branches
DeallocBypass(t) ==
    /\ pc[t] = "dealloc_bypass"
    /\ mem' = InnerDealloc(InnerDeallocCall(t).ptr)
    /\ heap' = HeapRelease(heap, InnerDeallocCall(t).ptr)
    /\ Goto(t, "dealloc_ret")
    /\ UNCHANGED <<frame, state, held, ghost_vars, aborted, cl_vars>>

\* DeallocSwap with the slot loaded and the caller's pointer never stored
DeallocSwap_load(t) ==
    /\ pc[t] = "dealloc_swap"
    /\ LET f == frame[t] IN
          SetFrame(t, [f EXCEPT !.old_ptr = heap[f.array].elems[f.index]])
    /\ Goto(t, "dealloc_free")
    /\ UNCHANGED <<mem, heap, state, held, ghost_vars, aborted, cl_vars>>

\* let old_ptr = array.elems[index].swap(ptr, SeqCst)
DeallocSwap(t) ==
    /\ pc[t] = "dealloc_swap"
    /\ LET f == frame[t] IN
          /\ heap' = [heap EXCEPT ![f.array].elems[f.index] = f.ptr]
          /\ SetFrame(t, [f EXCEPT !.old_ptr = heap[f.array].elems[f.index]])
    /\ Goto(t, "dealloc_free")
    /\ UNCHANGED <<mem, state, held, ghost_vars, aborted, cl_vars>>

\* self.inner.dealloc(old_ptr, array.elem_layout())
DeallocFree(t) ==
    /\ pc[t] = "dealloc_free"
    /\ mem' = InnerDealloc(InnerDeallocCall(t).ptr)
    /\ heap' = HeapRelease(heap, InnerDeallocCall(t).ptr)
    /\ Goto(t, "dealloc_ret")
    /\ UNCHANGED <<frame, state, held, ghost_vars, aborted, cl_vars>>

\* dealloc returns
DeallocReturn(t) ==
    /\ pc[t] = "dealloc_ret"
    /\ M' = IF frame[t].array # NULL THEN M + 1 ELSE M
    /\ Goto(t, "idle")
    /\ SetFrame(t, EmptyFrame)
    /\ UNCHANGED <<mem, heap, state, held, calls, N, classes_used, returned, aborted,
                   cl_vars>>

\* ------------------------------------------------- classification alone
\* size_class_info applied to one size
Classify ==
    /\ cl_pc = "in"
    /\ cl_out' = size_class_info(cl_size)
    /\ cl_pc' = "out"
    /\ UNCHANGED <<pc, frame, mem, heap, state, held, ghost_vars, aborted,
                   cl_size>>

InitClassify ==
    /\ pc = [t \in Threads |-> "idle"]
    /\ frame = [t \in Threads |-> EmptyFrame]
    /\ mem = [b \in Blocks |-> NoLayout]
    /\ heap = [b \in Blocks |-> NoObject]
    /\ state = NULL
    /\ held = {}
    /\ calls = 0
    /\ N = 0
    /\ M = 0
    /\ classes_used = {}
    /\ returned = {}
    /\ aborted = FALSE
    /\ cl_size \in 0..MaxSize
    /\ cl_out = None
    /\ cl_pc = "in"

NextClassify == Classify

SpecClassify == InitClassify /\ [][NextClassify]_vars

\* ------------------------------------------------------------ specification
Next ==
    \E t \in Threads :
       \/ \E layout \in RequestLayouts : AllocCall(t, layout)
       \/ AllocEntry(t)
       \/ AllocBypass(t)
       \/ AllocReplacement(t)
       \/ AllocSwap(t)
       \/ AllocReturn(t)
       \/ \E ptr \in Blocks \cup {NULL}, layout \in RequestLayouts :
             DeallocCall(t, ptr, layout)
       \/ DeallocEntry(t)
       \/ DeallocBypass(t)
       \/ DeallocSwap(t)
       \/ DeallocFree(t)
       \/ DeallocReturn(t)
       \/ GocLoad(t)
       \/ GocAlloc(t)
       \/ GocInit(t)
       \/ GocCas(t)
       \/ GocDrop(t)
       \/ GocDealloc(t)
       \/ RandomIndexLock(t)
       \/ RandomIndexDraw(t)

Spec == Init /\ [][Next]_vars

\* -------------------------------------------------------- fair scheduling
\* The steps of thread t's call other than the acquisition of the lock.
ThreadStep(t) ==
    \/ AllocEntry(t)
    \/ AllocBypass(t)
    \/ AllocReplacement(t)
    \/ AllocSwap(t)
    \/ AllocReturn(t)
    \/ DeallocEntry(t)
    \/ DeallocBypass(t)
    \/ DeallocSwap(t)
    \/ DeallocFree(t)
    \/ DeallocReturn(t)
    \/ GocLoad(t)
    \/ GocAlloc(t)
    \/ GocInit(t)
    \/ GocCas(t)
    \/ GocDrop(t)
    \/ GocDealloc(t)
    \/ RandomIndexDraw(t)

\* Every thread that can take a step of its call eventually takes one, and a
\* thread in lock() that finds the lock free again and again eventually
\* acquires it.  Callers are free to stop calling.
Fairness ==
    \A t \in Threads :
       WF_vars(ThreadStep(t)) /\ SF_vars(RandomIndexLock(t))

\* The layouts callers request under fair scheduling: one that is shuffled
\* and one that takes the bypass.
FairLayouts == { Layout(17, 8), Layout(1, 32) }

NextFair ==
    \E t \in Threads :
       \/ \E layout \in FairLayouts : AllocCall(t, layout)
       \/ \E ptr \in Blocks \cup {NULL}, layout \in FairLayouts :
             DeallocCall(t, ptr, layout)
       \/ ThreadStep(t)
       \/ RandomIndexLock(t)

SpecFair == Init /\ [][NextFair]_vars /\ Fairness

\* ------------------------------------------- one thread's allocate-free loop
\* One thread allocates a block of class 0 and frees it at once, again and
\* again, on a freshly declared allocator.
LoopThread == 1
LoopLayouts == { Layout(1, 1), Layout(size_of_usize, align_of_usize) }

\* The loop calls alloc(layout) when it owns nothing.
LoopAllocCall(layout) ==
    /\ ~aborted
    /\ pc[LoopThread] = "idle"
    /\ held = {}
    /\ calls < 2 * MaxIter
    /\ calls' = calls + 1
    /\ Goto(LoopThread, "alloc")
    /\ SetFrame(LoopThread,
                [EmptyFrame EXCEPT !.op = "alloc", !.layout = layout])
    /\ UNCHANGED <<mem, heap, state, held, N, M, classes_used, returned, aborted, cl_vars>>

\* The loop frees the block it owns, with the layout it asked for.
LoopDeallocCall ==
    /\ ~aborted
    /\ pc[LoopThread] = "idle"
    /\ \E h \in held :
          /\ held' = held \ {h}
          /\ SetFrame(LoopThread,
                      [EmptyFrame EXCEPT !.op = "dealloc", !.ptr = h.ptr,
                                         !.layout = h.layout])
    /\ calls' = calls + 1
    /\ Goto(LoopThread, "dealloc")
    /\ UNCHANGED <<mem, heap, state, N, M, classes_used, returned, aborted, cl_vars>>

\* The steps one thread's shuffled calls can take: with no other thread there
\* is no bypass for these layouts and no race to lose.
NextLoop ==
    \/ \E layout \in LoopLayouts : LoopAllocCall(layout)
    \/ LoopDeallocCall
    \/ AllocEntry(LoopThread)
    \/ AllocReplacement(LoopThread)
    \/ AllocSwap(LoopThread)
    \/ AllocReturn(LoopThread)
    \/ DeallocEntry(LoopThread)
    \/ DeallocSwap(LoopThread)
    \/ DeallocFree(LoopThread)
    \/ DeallocReturn(LoopThread)
    \/ GocLoad(LoopThread)
    \/ GocAlloc(LoopThread)
    \/ GocInit(LoopThread)
    \/ GocCas(LoopThread)
    \/ RandomIndexLock(LoopThread)
    \/ RandomIndexDraw(LoopThread)

SpecLoop == Init /\ [][NextLoop]_vars


\* ================================================================== claims
\* Vocabulary of the claims.
AllIdle == \A t \in Threads : pc[t] = "idle"
HeldPtrs == {h.ptr : h \in held}
\* A layout that alloc and dealloc send through the shuffle.
Shuffled(layout) ==
    layout.align <= align_of_usize /\ size_class_info(layout.size) # None
\* Every ShufflingArray in memory: the published ones and the candidates of
\* get_or_create calls in progress.
ArrayBlocks == {a \in Blocks : heap[a].type = "ShufflingArray"}
\* The published array of class c, NULL when there is none.
ClassArray(c) ==
    IF state = NULL THEN NULL
    ELSE IF heap[state].size_classes = NULL THEN NULL
    ELSE heap[heap[state].size_classes].cells[c]
PublishedArrays == {ClassArray(c) : c \in ClassIndexes} \ {NULL}
\* The slots that hold pointer b.
SlotsHolding(b) ==
    {<<a, i>> \in ArrayBlocks \X Slots : heap[a].elems[i] = b}
\* The block thread t's call carries between the caller, a slot and the
\* underlying allocator: the replacement until it is swapped in and the
\* returned pointer after, the caller's pointer until it is swapped in (or
\* released by the bypass) and the displaced pointer until it is released.
InFlight(t) ==
    CASE frame[t].op = "alloc" ->
            IF pc[t] = "alloc_ret" THEN frame[t].ret
            ELSE frame[t].replacement_ptr
      [] frame[t].op = "dealloc" ->
            IF pc[t] = "dealloc_ret" THEN NULL
            ELSE IF pc[t] = "dealloc_free" THEN frame[t].old_ptr
            ELSE frame[t].ptr
      [] OTHER -> NULL
\* In how many places pointer b is.
Places(b) ==
    Cardinality(SlotsHolding(b))
    + Cardinality({t \in Threads : InFlight(t) = b})
    + Cardinality({h \in held : h.ptr = b})

\* C1: the pointers callers own at one time, those alloc is returning
\* included, are pairwise distinct: alloc never returns a pointer that a
\* caller still owns or that another alloc is returning.
C1_LiveDistinct ==
    /\ \A h1, h2 \in held : h1.ptr = h2.ptr => h1 = h2
    /\ \A t \in Threads :
          pc[t] = "alloc_ret" /\ frame[t].ret # NULL =>
             /\ frame[t].ret \notin HeldPtrs
             /\ \A u \in Threads \ {t} :
                   pc[u] = "alloc_ret" => frame[u].ret # frame[t].ret

\* Two callers own shuffled pointers while a third shuffled alloc returns one.
C1_Witness ==
    /\ Cardinality({h \in held : Shuffled(h.layout)}) = 2
    /\ \E t \in Threads :
          pc[t] = "alloc_ret" /\ frame[t].ret # NULL /\ frame[t].array # NULL

\* C2: every block outstanding for a slot or a caller is in exactly one
\* place (one slot of one array, in flight in one call, owned by one caller)
\* and a block that is not outstanding is in none: what was handed to the
\* underlying dealloc is in no slot and owned by no caller.
C2_OnePlace ==
    \A b \in Blocks :
       /\ mem[b].of = "bytes" => Places(b) = 1
       /\ mem[b] = NoLayout => Places(b) = 0

\* A shuffled dealloc has swapped the caller's pointer into a slot and
\* carries the displaced pointer to the underlying allocator, while another
\* caller owns a pointer.
C2_Witness ==
    \E t \in Threads :
       /\ pc[t] = "dealloc_free"
       /\ SlotsHolding(frame[t].ptr) # {}
       /\ frame[t].old_ptr # frame[t].ptr
       /\ held # {}


\* Class k's size by the stride schedule: class 0 is one word, and the step
\* from class k to class k + 1 is one word doubled once per four classes.
RECURSIVE ClassSize(_)
ClassSize(k) ==
    IF k = 0 THEN size_of_usize
    ELSE ClassSize(k - 1) + size_of_usize * 2 ^ ((k - 1) \div 4)

Outstanding == Cardinality({b \in Blocks : mem[b] # NoLayout})
OutstandingBytes == Cardinality({b \in Blocks : mem[b].of = "bytes"})
BypassHeld == Cardinality({h \in held : ~Shuffled(h.layout)})
ClassesUsed == Cardinality(classes_used)
\* The allocations the shuffler makes for itself: once a class is used the
\* State, its mutex's pthread_mutex_t and the SizeClasses table, and one
\* ShufflingArray per class used.
Bookkeeping == IF ClassesUsed = 0 THEN 0 ELSE 3 + ClassesUsed

\* C3, as stated: when every call has returned, the blocks outstanding at the
\* underlying allocator (those of bypassed requests aside) number N - M plus
\* the array size times the classes used.
C3_Original ==
    AllIdle =>
       Outstanding - BypassHeld = N - M + SHUFFLING_ARRAY_SIZE * ClassesUsed

\* C3, amended: when every call has returned, the blocks outstanding for
\* slots and callers number N - M plus the array size times the classes used,
\* and the blocks outstanding in all are those and the shuffler's own
\* bookkeeping allocations.
C3_Net ==
    AllIdle =>
       /\ OutstandingBytes - BypassHeld
             = N - M + SHUFFLING_ARRAY_SIZE * ClassesUsed
       /\ Outstanding - BypassHeld
             = N - M + SHUFFLING_ARRAY_SIZE * ClassesUsed + Bookkeeping

\* Every call has returned after shuffled allocs and a shuffled dealloc in
\* two classes.
C3_Witness ==
    AllIdle /\ N = 2 /\ M = 1 /\ ClassesUsed = 2

\* C4: every slot of the published array of class c holds a block that is
\* outstanding at the underlying allocator with class c's layout, and the
\* pointer a shuffled alloc returns is such a block, of the request's class
\* and so at least as large as the request.
C4_SlotLayouts ==
    /\ \A c \in ClassIndexes : \A i \in Slots :
          ClassArray(c) # NULL =>
             /\ heap[ClassArray(c)].elems[i] # NULL
             /\ mem[heap[ClassArray(c)].elems[i]]
                   = Layout(ClassSize(c), align_of_usize)
    /\ \A t \in Threads :
          pc[t] = "alloc_ret" /\ frame[t].array # NULL /\ frame[t].ret # NULL
          => /\ mem[frame[t].ret]
                   = Layout(ClassSize(frame[t].info.index), align_of_usize)
             /\ mem[frame[t].ret].size >= frame[t].layout.size

\* A shuffled alloc returns a block larger than the request after a shuffled
\* dealloc has put a caller's pointer into a slot.
C4_Witness ==
    /\ M >= 1
    /\ \E t \in Threads :
          /\ pc[t] = "alloc_ret" /\ frame[t].array # NULL
          /\ frame[t].ret # NULL
          /\ mem[frame[t].ret].size > frame[t].layout.size

BypassLabels == {"alloc", "alloc_bypass", "alloc_ret",
                 "dealloc", "dealloc_bypass", "dealloc_ret"}
\* Thread t's call has touched nothing of the shuffle: no cell, no array, no
\* random index.
Untouched(t) ==
    /\ frame[t].cell = "none" /\ frame[t].published = {}
    /\ frame[t].state = NULL /\ frame[t].size_classes = NULL
    /\ frame[t].array = NULL /\ frame[t].index = -1
    /\ frame[t].new_ptr = NULL /\ frame[t].replacement_ptr = NULL
\* Thread t's call forwards to the underlying allocator: alloc returns a block
\* allocated with the caller's layout (or null), dealloc releases the
\* caller's pointer with the caller's layout.
Forwards(t) ==
    /\ pc[t] \in BypassLabels
    /\ Untouched(t)
    /\ pc[t] = "alloc_ret" /\ frame[t].ret # NULL
          => mem[frame[t].ret] = frame[t].layout
    /\ pc[t] = "dealloc_bypass"
          => /\ InnerDeallocCall(t)
                   = [ptr |-> frame[t].ptr, layout |-> frame[t].layout]
             /\ mem[frame[t].ptr] = frame[t].layout

\* C5: a call whose layout is aligned above one word takes the bypass: it
\* touches no cell and no slot, alloc returns the block the underlying
\* allocator produced for the caller's layout, and dealloc hands the caller's
\* pointer and layout to the underlying allocator.
C5_OverAlignedBypass ==
    \A t \in Threads :
       frame[t].op # "none" /\ frame[t].layout.align > align_of_usize
       => Forwards(t)

\* An over-aligned block is about to be released through the bypass.
C5_Witness ==
    \E t \in Threads :
       /\ pc[t] = "dealloc_bypass"
       /\ frame[t].layout.align > align_of_usize
       /\ state # NULL

\* Thread t's call is past the dispatch on its layout.
Dispatched(t) ==
    /\ frame[t].op # "none"
    /\ pc[t] \notin {"alloc", "dealloc"}
    /\ ~(frame[t].op = "dealloc" /\ frame[t].ptr = NULL)

\* C6: for a layout aligned to a word or less, a size equal to class 31's is
\* classified into class 31 and the call goes through the shuffle of that
\* class, and a larger size has no class and the call forwards to the
\* underlying allocator.
C6_Class31Boundary ==
    /\ size_class_info(ClassSize(31)) = SizeClassInfo(31, ClassSize(31))
    /\ size_class_info(ClassSize(31) + 1) = None
    /\ \A t \in Threads :
          Dispatched(t) /\ frame[t].layout.align <= align_of_usize
          => /\ frame[t].layout.size = ClassSize(31)
                   => /\ frame[t].info = SizeClassInfo(31, ClassSize(31))
                      /\ pc[t] \notin {"alloc_bypass", "dealloc_bypass"}
                      /\ frame[t].array # NULL
                            => frame[t].array = ClassArray(31)
                      /\ pc[t] \in {"alloc_ret", "dealloc_ret"}
                            => frame[t].array # NULL
             /\ frame[t].layout.size > ClassSize(31) => Forwards(t)

\* One call of class 31's size is at its swap while a call one byte larger
\* is at the bypass of dealloc.
C6_Witness ==
    \E t, u \in Threads :
       /\ pc[t] \in {"alloc_swap", "dealloc_swap"}
       /\ frame[t].layout.size = ClassSize(31)
       /\ pc[u] = "dealloc_bypass"
       /\ frame[u].layout = Layout(ClassSize(31) + 1, align_of_usize)

\* C7: a classified size gets the smallest class that fits it: the class
\* size is at least the size and no class of a smaller size fits; sizes 0, 1
\* and one word are of class 0, one word and a byte of class 1, a size equal
\* to a class's size of that class and one byte more of the next.
C7_SmallestFit ==
    cl_pc = "out" /\ cl_out # None =>
       /\ cl_out.index \in ClassIndexes
       /\ cl_out.size_class = ClassSize(cl_out.index)
       /\ cl_out.size_class >= cl_size
       /\ \A j \in ClassIndexes :
             ClassSize(j) >= cl_size => ClassSize(j) >= cl_out.size_class
       /\ cl_size \in {0, 1, size_of_usize} => cl_out.index = 0
       /\ cl_size = size_of_usize + 1 => cl_out.index = 1
       /\ \A k \in ClassIndexes :
             /\ cl_size = ClassSize(k) => cl_out.index = k
             /\ cl_size = ClassSize(k) + 1 => cl_out.index = k + 1

\* One byte above class 12's size has been classified.
C7_Witness ==
    cl_pc = "out" /\ cl_size = ClassSize(12) + 1 /\ cl_out.index = 13


\* C8, as stated: when the replacement allocation fails, alloc returns null
\* and its call has mutated nothing: it has drawn no random index (and so
\* swapped no slot) and has published no lazy cell.
C8_Original ==
    \A t \in Threads :
       pc[t] = "alloc_ret" /\ frame[t].replacement_failed
       => /\ frame[t].ret = NULL
          /\ frame[t].index = -1
          /\ frame[t].published = {}

\* C8, amended: when the replacement allocation fails, alloc returns null
\* having drawn no random index and swapped no slot, and the failing step
\* itself changes nothing of the allocator; the cells the call published on
\* the way to the class's array (first use) stay published.
C8_FailedReplacement ==
    /\ [](\A t \in Threads :
            pc[t] = "alloc_ret" /\ frame[t].replacement_failed
            => /\ frame[t].ret = NULL
               /\ frame[t].index = -1
               /\ frame[t].replacement_ptr = NULL
               /\ frame[t].array # NULL
               /\ \A c \in frame[t].published :
                     c \in {"state", "size_classes", "array"})
    /\ [][\A t \in Threads :
            pc[t] = "alloc_replacement" /\ pc'[t] = "alloc_ret"
            => /\ frame'[t].replacement_failed
               /\ UNCHANGED <<mem, heap, state, held>>]_vars

\* The replacement allocation of the first call of a class failed after the
\* call published the state cell, the class table and the class's array.
C8_Witness ==
    \E t \in Threads :
       /\ pc[t] = "alloc_ret" /\ frame[t].replacement_failed
       /\ frame[t].published = {"state", "size_classes", "array"}

\* C9: dealloc of a null pointer returns at once, for every layout: the call
\* never gets past its entry, and its one step calls no underlying
\* allocator, changes no slot and no cell, and draws no index (a step that
\* ends the process, another thread's handle_alloc_error, aside).
C9_NullDeallocNoOp ==
    /\ [](\A t \in Threads :
            frame[t].op = "dealloc" /\ frame[t].ptr = NULL
            => /\ pc[t] \in {"dealloc", "dealloc_ret"}
               /\ Untouched(t)
               /\ frame[t].info = None)
    /\ [][\A t \in Threads :
            pc[t] = "dealloc" /\ frame[t].ptr = NULL /\ pc'[t] # pc[t]
               /\ ~aborted'
            => /\ pc'[t] = "dealloc_ret"
               /\ UNCHANGED <<mem, heap, state, held, classes_used, aborted>>]_vars

\* A dealloc of a null pointer with a shuffled layout has returned on an
\* allocator that was never used.
C9_Witness ==
    \E t \in Threads :
       /\ pc[t] = "dealloc_ret" /\ frame[t].ptr = NULL
       /\ Shuffled(frame[t].layout)
       /\ state = NULL

\* The threads about to call the underlying allocator's dealloc.
Releasing == {t \in Threads : InnerDeallocCall(t).ptr # NULL}

\* C10: every pointer about to be passed to the underlying allocator's
\* dealloc is outstanding there (returned by its alloc and not released
\* since) with the very layout it is about to be released with, and no two
\* calls are about to release the same pointer.
C10_MatchedPairs ==
    /\ \A t \in Threads :
          pc[t] \in {"dealloc_bypass", "dealloc_free", "goc_dealloc"}
          => t \in Releasing
    /\ \A t \in Releasing :
          mem[InnerDeallocCall(t).ptr] = InnerDeallocCall(t).layout
    /\ \A t, u \in Releasing :
          InnerDeallocCall(t).ptr = InnerDeallocCall(u).ptr => t = u

\* A shuffled dealloc is about to release, with the class's layout, a block
\* that is not the caller's pointer and that an earlier caller had owned,
\* while a loser of the race for a class array drops its array.
C10_Witness ==
    \E t, u \in Threads :
       /\ pc[t] = "dealloc_free"
       /\ frame[t].old_ptr # frame[t].ptr
       /\ InnerDeallocCall(t).layout # frame[t].layout
       /\ pc[u] = "goc_drop" /\ frame[u].cell = "array"

\* A layout of one machine word's alignment and of the size of one of the 32
\* classes.
IsClassLayout(l) ==
    l.align = align_of_usize /\ \E k \in ClassIndexes : l.size = ClassSize(k)
\* The layouts thread t is about to pass to the underlying allocator.
IssuedLayouts(t) ==
    {InnerAllocCall(t), InnerDeallocCall(t).layout} \ {NoLayout}
\* Thread t is at a call of the underlying allocator in a bypass branch.
BypassCalling(t) == pc[t] \in {"alloc_bypass", "dealloc_bypass"}
\* Thread t is at a call of the underlying allocator for the storage of a
\* cell's value or for the mutex's pthread_mutex_t.
BookkeepingCalling(t) ==
    \/ pc[t] \in {"goc_alloc", "goc_dealloc"}
    \/ pc[t] \in {"goc_init", "goc_drop"} /\ frame[t].cell = "state"

\* C11, as stated: every call of the underlying allocator outside the bypass
\* branches passes a layout of one word's alignment and of a class's size.
C11_Original ==
    \A t \in Threads :
       ~BypassCalling(t) => \A l \in IssuedLayouts(t) : IsClassLayout(l)

\* C11, amended: a call of the underlying allocator in a bypass branch passes
\* the caller's layout, which has no class or is aligned above a word; a call
\* for a slot's block (replacement, displaced pointer, the blocks of a new or
\* of a dropped array) passes the layout of the request's class, one word's
\* alignment and that class's size; and the remaining calls are for the
\* shuffler's own records and pass Layout::new of State, pthread_mutex_t,
\* SizeClasses or ShufflingArray.
C11_IssuedLayouts ==
    \A t \in Threads : \A l \in IssuedLayouts(t) :
       /\ BypassCalling(t) =>
             l = frame[t].layout /\ ~Shuffled(frame[t].layout)
       /\ BookkeepingCalling(t) =>
             l = LayoutNew(IF pc[t] \in {"goc_init", "goc_drop"}
                           THEN "pthread_mutex_t" ELSE CellType(frame[t]))
       /\ ~BypassCalling(t) /\ ~BookkeepingCalling(t) =>
             /\ IsClassLayout(l)
             /\ l = Layout(ClassSize(frame[t].info.index), align_of_usize)

\* The loser of the race for the class table is about to release its table,
\* whose layout is no class's, while the winner is about to allocate a
\* replacement block with a class's layout.
C11_Witness ==
    \E t, u \in Threads :
       /\ pc[t] = "goc_dealloc" /\ frame[t].cell = "size_classes"
       /\ ~IsClassLayout(InnerDeallocCall(t).layout)
       /\ pc[u] = "alloc_replacement"
       /\ IsClassLayout(InnerAllocCall(u))

\* The threads whose call is a shuffle operation on class c.
OperatingOn(c) ==
    {t \in Threads : frame[t].op # "none" /\ frame[t].info.index = c}

\* C12: for every class a shuffle-path call has asked for, when no shuffle
\* operation on that class is in progress its array is published and every
\* slot holds a non-null pointer (the slots of a published array are in fact
\* non-null at every moment, the swap being one step); a shuffled alloc
\* whose replacement allocation succeeded returns a non-null pointer, and the
\* displaced pointer a shuffled dealloc hands to the underlying allocator is
\* non-null.
C12_SlotsNonNull ==
    /\ \A c \in classes_used :
          OperatingOn(c) = {} =>
             /\ ClassArray(c) # NULL
             /\ \A i \in Slots : heap[ClassArray(c)].elems[i] # NULL
    /\ \A a \in PublishedArrays : \A i \in Slots : heap[a].elems[i] # NULL
    /\ \A t \in Threads :
          /\ pc[t] = "alloc_ret" /\ frame[t].array # NULL
                /\ ~frame[t].replacement_failed
             => frame[t].ret # NULL
          /\ pc[t] = "dealloc_free" => frame[t].old_ptr # NULL

\* No operation is in progress on a class used before, after a shuffled
\* alloc returned a block, while a shuffled dealloc of another class is about
\* to release the pointer it displaced.
C12_Witness ==
    \E c \in classes_used : \E t \in Threads :
       /\ OperatingOn(c) = {} /\ N >= 2
       /\ pc[t] = "dealloc_free" /\ frame[t].info.index # c

\* The blocks a step obtains from, and hands back to, the underlying
\* allocator.
AllocatedInStep == {b \in Blocks : mem[b] = NoLayout /\ mem'[b] # NoLayout}
FreedInStep == {b \in Blocks : mem[b] # NoLayout /\ mem'[b] = NoLayout}
\* The loop's first call of alloc is returning a block.
FirstAllocReturns ==
    /\ calls = 1 /\ pc[LoopThread] = "alloc_ret"
    /\ frame[LoopThread].ret # NULL
\* The loop is between two iterations, after a dealloc.
BetweenIterations == AllIdle /\ held = {} /\ M >= 1

\* C13, as stated: when the first alloc of the loop returns, the underlying
\* allocator has been asked for the array's blocks and one replacement (it
\* frees nothing before), and no more.
C13_Original ==
    FirstAllocReturns => Outstanding = SHUFFLING_ARRAY_SIZE + 1

\* C13, amended: the first alloc of the loop obtains the array's blocks, one
\* replacement and four blocks for the shuffler's records (State, mutex,
\* class table, array) and frees nothing, and the dealloc that follows frees
\* one block; every later alloc obtains exactly one block, at its replacement
\* step, and every dealloc frees exactly one, the displaced pointer; the
\* cells are created during the first call alone.
C13_LoopCounts ==
    /\ [](FirstAllocReturns =>
            /\ Outstanding = SHUFFLING_ARRAY_SIZE + 1 + 4
            /\ OutstandingBytes = SHUFFLING_ARRAY_SIZE + 1)
    /\ [](pc[LoopThread] = "alloc_ret" /\ frame[LoopThread].ret # NULL =>
            Outstanding = SHUFFLING_ARRAY_SIZE + 1 + 4)
    /\ [](BetweenIterations => Outstanding = SHUFFLING_ARRAY_SIZE + 4)
    /\ [](pc[LoopThread] \in {"goc_alloc", "goc_init", "goc_cas"} =>
            calls = 1)
    /\ [][~aborted' =>
            /\ Cardinality(AllocatedInStep) + Cardinality(FreedInStep) <= 1
            /\ frame[LoopThread].op = "alloc" => FreedInStep = {}
            /\ frame[LoopThread].op = "dealloc" => AllocatedInStep = {}
            /\ calls >= 2 /\ AllocatedInStep # {} =>
                  pc[LoopThread] = "alloc_replacement"
            /\ FreedInStep # {} => pc[LoopThread] = "dealloc_free"
            /\ pc[LoopThread] = "alloc_replacement"
                  /\ pc'[LoopThread] # "alloc_ret"
               => Cardinality(AllocatedInStep) = 1
            /\ pc[LoopThread] = "dealloc_free" =>
                  Cardinality(FreedInStep) = 1]_vars

\* The loop is between iterations after its third dealloc.
C13_Witness ==
    BetweenIterations /\ M = 3 /\ N = 3 /\ calls = 2 * MaxIter

\* The pointer of the class table's cell, NULL while there is no State.
SizeClassesCell == IF state = NULL THEN NULL ELSE heap[state].size_classes
\* Thread t's get_or_create has lost the compare-and-swap.
Lost(t) == pc[t] \in {"goc_drop", "goc_dealloc"}

\* C14: the pointer of every lazy cell (the state cell, the class table's
\* cell, each class's cell) changes only from null to the value some thread's
\* compare-and-swap publishes, that thread's own candidate, and never
\* changes once it is non-null (until the process ends); a candidate that
\* lost is not the published value; and every reference a get_or_create
\* call has returned or is about to return, to the winner, to a loser or to
\* a later caller, is the cell's published pointer.
C14_PublishOnce ==
    /\ [](\A t \in Threads :
            /\ frame[t].state # NULL => frame[t].state = state
            /\ frame[t].size_classes # NULL =>
                  frame[t].size_classes = SizeClassesCell
            /\ frame[t].array # NULL =>
                  frame[t].array = ClassArray(frame[t].info.index)
            /\ Lost(t) =>
                  /\ frame[t].existing_ptr # NULL
                  /\ frame[t].existing_ptr = CellPtr(frame[t])
                  /\ frame[t].new_ptr # CellPtr(frame[t]))
    /\ [][~aborted' =>
            /\ state # NULL => state' = state
            /\ SizeClassesCell # NULL => SizeClassesCell' = SizeClassesCell
            /\ \A c \in ClassIndexes :
                  ClassArray(c) # NULL => ClassArray(c)' = ClassArray(c)
            /\ state' # state \/ SizeClassesCell' # SizeClassesCell
                  \/ (\E c \in ClassIndexes : ClassArray(c)' # ClassArray(c))
               => \E t \in Threads :
                     /\ pc[t] = "goc_cas" /\ pc'[t] # "goc_cas"
                     /\ CellPtr(frame[t]) = NULL
                     /\ frame[t].new_ptr # NULL
                     /\ frame[t].new_ptr =
                           CASE frame[t].cell = "state" -> state'
                             [] frame[t].cell = "size_classes" ->
                                   SizeClassesCell'
                             [] frame[t].cell = "array" ->
                                   ClassArray(frame[t].info.index)']_vars

\* Two threads raced to create the State: the winner holds the reference to
\* the value it published and the loser, its own candidate not yet released,
\* is about to return that same pointer.
C14_Witness ==
    \E t, u \in Threads :
       /\ pc[t] = "goc_dealloc" /\ frame[t].cell = "state"
       /\ frame[t].existing_ptr = state
       /\ "state" \in frame[u].published /\ frame[u].state = state

\* The pthread_mutex_t of the published State's rng, NULL while there is no
\* State.
RngMutex == IF state = NULL THEN NULL ELSE heap[state].rng
\* The threads that hold the guard lock() returned: they are between the lock
\* and the end of random_index.
GuardHolders == {t \in Threads : pc[t] = "draw"}
\* The threads inside lock().
LockWaiters == {t \in Threads : pc[t] = "lock"}

\* C15: at most one thread holds the guard of the generator's mutex, and the
\* lock is held exactly while a thread holds the guard; a thread inside
\* lock() stays there while another thread holds the lock and can take the
\* lock when it is free; and the step in which a thread leaves random_index
\* releases the lock (the end of the process aside).
C15_MutualExclusion ==
    /\ [](/\ Cardinality(GuardHolders) <= 1
          /\ \A b \in Blocks :
                heap[b].type = "pthread_mutex_t" /\ heap[b].owner # 0 =>
                   b = RngMutex /\ GuardHolders = {heap[b].owner}
          /\ GuardHolders # {} =>
                state # NULL /\ GuardHolders = {heap[RngMutex].owner}
          /\ \A t \in GuardHolders \cup LockWaiters :
                frame[t].state = state /\ state # NULL
          /\ \A t \in LockWaiters :
                heap[RngMutex].owner = 0 => ENABLED RandomIndexLock(t))
    /\ [][~aborted' =>
            \A t \in Threads :
               /\ pc[t] = "lock" /\ heap[RngMutex].owner # 0 =>
                     pc'[t] = "lock"
               /\ pc[t] = "lock" /\ pc'[t] # "lock" =>
                     pc'[t] = "draw" /\ heap'[RngMutex].owner = t
               /\ pc[t] = "draw" /\ pc'[t] # "draw" =>
                     /\ heap'[RngMutex].owner = 0
                     /\ frame'[t].index \in Slots
               /\ pc[t] = "draw" /\ pc'[t] = "draw" =>
                     heap'[RngMutex].owner = t]_vars

\* One thread holds the guard while another waits inside lock().
C15_Witness ==
    \E t, u \in Threads :
       /\ pc[t] = "draw" /\ heap[RngMutex].owner = t
       /\ pc[u] = "lock"

\* Thread t's call is for 17 bytes aligned to a word or less.
Requests17(t) ==
    /\ frame[t].op # "none"
    /\ frame[t].layout.size = 17 /\ frame[t].layout.align <= align_of_usize

\* C16, as stated: the block a request of 17 bytes receives is of a class
\* size of four machine words or more.
C16_Original ==
    \A t \in Threads :
       Requests17(t) /\ pc[t] = "alloc_ret" /\ frame[t].ret # NULL
       => mem[frame[t].ret].size >= 4 * size_of_usize

\* C16, amended: the block a request of 17 bytes receives is of class 2's
\* layout, the smallest class size of 17 bytes or more, which is three words
\* of eight bytes; and the block its dealloc hands to the underlying
\* allocator is outstanding with that layout and is released with it, not
\* with the caller's 17 bytes.
C16_ClassSized ==
    /\ ClassSize(2) = 3 * size_of_usize
    /\ ClassSize(1) < 17 /\ 17 <= ClassSize(2)
    /\ \A t \in Threads :
          Requests17(t) =>
             /\ pc[t] = "alloc_ret" /\ frame[t].ret # NULL =>
                   mem[frame[t].ret] = Layout(ClassSize(2), align_of_usize)
             /\ pc[t] = "dealloc_free" =>
                   /\ InnerDeallocCall(t).layout
                         = Layout(ClassSize(2), align_of_usize)
                   /\ mem[InnerDeallocCall(t).ptr] = InnerDeallocCall(t).layout
                   /\ InnerDeallocCall(t).layout # frame[t].layout

\* A dealloc with the 17-byte layout is about to release a block of three
\* words.
C16_Witness ==
    \E t \in Threads :
       /\ Requests17(t) /\ pc[t] = "dealloc_free"
       /\ mem[frame[t].old_ptr].size = 3 * size_of_usize

\* The pointers shuffled allocs of class c have returned before now.
ReturnedOf(c) == {r.ptr : r \in {x \in returned : x.index = c}}
\* Thread t's shuffled alloc is returning a block.
ShuffledReturn(t) ==
    pc[t] = "alloc_ret" /\ frame[t].array # NULL /\ frame[t].ret # NULL

\* C17, as stated: the pointer a shuffled alloc returns differs from every
\* pointer an earlier alloc of the same class returned.
C17_Original ==
    \A t \in Threads :
       ShuffledReturn(t) => frame[t].ret \notin ReturnedOf(frame[t].info.index)

\* C17, amended: the pointer a shuffled alloc returns differs from every
\* pointer an earlier alloc of the same class returned and the caller has not
\* freed: it equals an earlier pointer only if that pointer has been passed
\* to dealloc since, so the block a live pointer designates is never handed
\* out a second time.
C17_DistinctWhileLive ==
    \A t \in Threads :
       ShuffledReturn(t) =>
          \A p \in ReturnedOf(frame[t].info.index) :
             /\ p \in HeldPtrs => frame[t].ret # p
             /\ frame[t].ret = p =>
                   /\ p \notin HeldPtrs
                   /\ M >= 1 \/ \E u \in Threads : frame[u].op = "dealloc"

\* A shuffled alloc returns a block while a caller still owns the pointer an
\* earlier alloc of the same class returned.
C17_Witness ==
    \E t \in Threads :
       /\ ShuffledReturn(t)
       /\ ReturnedOf(frame[t].info.index) \cap HeldPtrs # {}

\* The stride of the schedule below class k + 1: one word doubled once per
\* four classes.
Stride(k) == size_of_usize * 2 ^ (k \div 4)

\* C18: the class sizes size_class_info produces follow the stride schedule:
\* class 0's size is one word, and the size of class k + 1 is the size of
\* class k plus one word times 2 ^ (k div 4): the size less that stride is
\* classified into class k as class k's own size; the sizes grow strictly
\* with the index, and class 31's is the last.
C18_StrideSchedule ==
    cl_pc = "out" /\ cl_out # None =>
       LET k == cl_out.index
           s == cl_out.size_class IN
       /\ k \in ClassIndexes
       /\ k = 0 => s = size_of_usize
       /\ k > 0 =>
             /\ size_class_info(s - Stride(k - 1))
                   = SizeClassInfo(k - 1, s - Stride(k - 1))
             /\ s - Stride(k - 1) < s
       /\ k < NUM_SIZE_CLASSES - 1 =>
             size_class_info(s + Stride(k)) = SizeClassInfo(k + 1, s + Stride(k))
       /\ k = NUM_SIZE_CLASSES - 1 => size_class_info(s + 1) = None
       /\ s = ClassSize(k)

\* A size of class 9 has been classified: its size is class 8's plus four
\* words.
C18_Witness ==
    /\ cl_pc = "out" /\ cl_out.index = 9
    /\ cl_out.size_class = 13 * size_of_usize + 4 * size_of_usize

\* The slots (of arrays in memory before the step) a step changes.
ChangedSlots ==
    {x \in ArrayBlocks \X Slots :
        heap'[x[1]].type = "ShufflingArray"
        /\ heap'[x[1]].elems[x[2]] # heap[x[1]].elems[x[2]]}
\* The slots of published arrays a step changes.
ChangedPublishedSlots == {x \in ChangedSlots : x[1] \in PublishedArrays}
\* Thread t takes its swap step.
SwapStep(t) ==
    pc[t] \in {"alloc_swap", "dealloc_swap"} /\ pc'[t] # pc[t]

\* C19: the swap step of a shuffled alloc changes one slot, slot `index` of
\* the published array of the request's class: it stores the replacement
\* there and the call returns the pointer the slot held before, which is not
\* the replacement; the swap step of a shuffled dealloc changes one such slot:
\* it stores the caller's pointer there and the call goes on to hand the
\* pointer the slot held before to the underlying allocator; and no other
\* step changes a slot of a published array (the end of the process aside).
C19_SwapFrame ==
    /\ [](\A t \in Threads :
            /\ ShuffledReturn(t) /\ ~frame[t].replacement_failed =>
                  frame[t].ret # frame[t].replacement_ptr
            /\ pc[t] = "dealloc_free" =>
                  /\ InnerDeallocCall(t).ptr = frame[t].old_ptr
                  /\ frame[t].old_ptr # frame[t].ptr)
    /\ [][~aborted' =>
            /\ \A t \in Threads :
                  SwapStep(t) =>
                     LET f == frame[t]
                         slot == <<f.array, f.index>> IN
                     /\ f.array = ClassArray(f.info.index)
                     /\ f.index \in Slots
                     /\ ChangedSlots = {slot}
                     /\ pc[t] = "alloc_swap" =>
                           /\ heap'[f.array].elems[f.index] = f.replacement_ptr
                           /\ frame'[t].ret = heap[f.array].elems[f.index]
                           /\ pc'[t] = "alloc_ret"
                     /\ pc[t] = "dealloc_swap" =>
                           /\ heap'[f.array].elems[f.index] = f.ptr
                           /\ frame'[t].old_ptr = heap[f.array].elems[f.index]
                           /\ pc'[t] = "dealloc_free"
            /\ (\A t \in Threads : ~SwapStep(t)) =>
                  ChangedPublishedSlots = {}]_vars

\* A shuffled alloc returns the pointer its slot held, the replacement now in
\* that slot, while a shuffled dealloc, its caller's pointer now in a slot,
\* carries the displaced pointer to the underlying allocator.
C19_Witness ==
    \E t, u \in Threads :
       /\ ShuffledReturn(t)
       /\ heap[frame[t].array].elems[frame[t].index] = frame[t].replacement_ptr
       /\ pc[u] = "dealloc_free"
       /\ heap[frame[u].array].elems[frame[u].index] = frame[u].ptr

\* The pointers thread t's frame holds to values of cells and to candidates.
FrameRefs(t) ==
    {frame[t].state, frame[t].size_classes, frame[t].array,
     frame[t].new_ptr, frame[t].existing_ptr} \ {NULL}
\* The reference to the value of the cell its get_or_create runs on that
\* thread t's frame holds: NULL until get_or_create returns.
CellRef(t) ==
    CASE frame[t].cell = "state" -> frame[t].state
      [] frame[t].cell = "size_classes" -> frame[t].size_classes
      [] frame[t].cell = "array" -> frame[t].array
      [] OTHER -> NULL

\* The step is thread t's.
TakesStep(t) == pc'[t] # pc[t] \/ frame'[t] # frame[t]

\* C20: a get_or_create call that lost the compare-and-swap drops its
\* candidate, for a ShufflingArray handing the block of every slot to the
\* underlying allocator, slot by slot, then releases the candidate's storage,
\* and only in that last step gets the reference to the winner's value (the
\* pointer itself is what the compare-and-swap returned); and a candidate
\* that lost is never in a cell nor in another thread's frame.
C20_LoserCleansUp ==
    /\ [](\A t \in Threads :
            Lost(t) =>
               LET f == frame[t] IN
               /\ CellRef(t) = NULL
               /\ f.new_ptr # NULL /\ mem[f.new_ptr] = LayoutNew(CellType(f))
               /\ f.new_ptr \notin {state, SizeClassesCell}
               /\ f.new_ptr \notin PublishedArrays
               /\ \A u \in Threads \ {t} : f.new_ptr \notin FrameRefs(u)
               /\ f.cell = "array" =>
                     \A i \in Slots :
                        LET p == heap[f.new_ptr].elems[i] IN
                        IF pc[t] = "goc_drop" /\ i >= f.i
                        THEN p # NULL /\ mem[p] = elem_layout(f.new_ptr)
                                      /\ SlotsHolding(p) = {<<f.new_ptr, i>>}
                        ELSE p = NULL)
    /\ [][~aborted' =>
            \A t \in Threads :
               /\ TakesStep(t) /\ pc[t] = "goc_drop"
                     /\ frame[t].cell = "array" =>
                     /\ FreedInStep = {heap[frame[t].new_ptr].elems[frame[t].i]}
                     /\ pc'[t] = "goc_dealloc" =>
                           frame[t].i = SHUFFLING_ARRAY_SIZE - 1
               /\ TakesStep(t) /\ pc[t] = "goc_drop"
                     /\ frame[t].cell = "state" =>
                     FreedInStep = {heap[frame[t].new_ptr].rng}
               /\ TakesStep(t) /\ pc[t] = "goc_dealloc" =>
                     /\ FreedInStep = {frame[t].new_ptr}
                     /\ frame[t].existing_ptr \in FrameRefs(t)'
                     /\ frame[t].new_ptr \notin FrameRefs(t)']_vars

\* The loser of the race for a class's array has handed every block of its
\* array back and is about to release the array's storage, the winner's
\* array being the published one.
C20_Witness ==
    \E t \in Threads :
       /\ pc[t] = "goc_dealloc" /\ frame[t].cell = "array"
       /\ ClassArray(frame[t].info.index) = frame[t].existing_ptr
       /\ \A i \in Slots : heap[frame[t].new_ptr].elems[i] = NULL

\* Thread t holds the lock of the generator's mutex.
HoldsLock(t) == state # NULL /\ heap[RngMutex].owner = t
\* Where a thread swaps a slot or calls the underlying allocator.
WorkLabels ==
    {"alloc_bypass", "alloc_replacement", "alloc_swap",
     "dealloc_bypass", "dealloc_swap", "dealloc_free",
     "goc_alloc", "goc_init", "goc_drop", "goc_dealloc"}

\* C21: a thread holds the generator's mutex only between lock() and the end
\* of random_index: a thread about to swap a slot or to call the underlying
\* allocator does not hold it, a thread at its swap has drawn one index
\* among the slots, the step into the swap is the draw, which releases the
\* lock, and a step of a thread that holds the lock allocates nothing, frees
\* nothing and changes no slot.
C21_LockAcrossDrawOnly ==
    /\ [](\A t \in Threads :
            /\ HoldsLock(t) => pc[t] = "draw" /\ frame[t].index = -1
            /\ pc[t] \in WorkLabels => ~HoldsLock(t)
            /\ pc[t] \in {"alloc_swap", "dealloc_swap"} =>
                  frame[t].index \in Slots
            /\ pc[t] \in {"lock", "draw"} =>
                  /\ frame[t].array # NULL
                  /\ frame[t].op = "alloc" => frame[t].replacement_ptr # NULL)
    /\ [][~aborted' =>
            \A t \in Threads :
               /\ TakesStep(t) /\ pc'[t] \in {"alloc_swap", "dealloc_swap"} =>
                     /\ pc[t] = "draw" /\ HoldsLock(t)
                     /\ heap'[RngMutex].owner = 0
               /\ TakesStep(t) /\ HoldsLock(t) =>
                     /\ AllocatedInStep = {} /\ FreedInStep = {}
                     /\ ChangedSlots = {}]_vars

\* One thread swaps a slot, the lock not its own, while another thread holds
\* the lock for its draw.
C21_Witness ==
    \E t, u \in Threads :
       /\ pc[t] \in {"alloc_swap", "dealloc_swap"} /\ ~HoldsLock(t)
       /\ pc[u] = "draw" /\ HoldsLock(u)

\* The class of the schedule a size falls in, -1 above class 31's size.
ClassOf(size) ==
    IF size > ClassSize(NUM_SIZE_CLASSES - 1) THEN -1
    ELSE CHOOSE k \in ClassIndexes :
            size <= ClassSize(k) /\ (k = 0 \/ size > ClassSize(k - 1))
\* A layout of the bypass: aligned above a word, or of a size above class
\* 31's.
BypassLayout(layout) ==
    layout.align > align_of_usize \/ ClassOf(layout.size) = -1
\* The blocks allocated for the shuffler's records.
RecordBlocks == {b \in Blocks : mem[b].of \notin {"free", "bytes"}}

\* C22: a ShufflingArray of class k, published or a candidate, is in memory
\* only if k is among the classes asked for, and a class joins these only in
\* the step of a call whose layout is aligned to a word or less and whose
\* size falls in that class; a call with a bypass layout touches no cell and
\* no array, and while no class has been asked for there is no State, no
\* class table and no array; and before the first call the underlying
\* allocator has been asked for nothing.
C22_LazyArrays ==
    /\ [](/\ \A a \in ArrayBlocks :
                \E k \in classes_used : heap[a].size_class = ClassSize(k)
          /\ \A k \in ClassIndexes : ClassArray(k) # NULL => k \in classes_used
          /\ \A b \in Blocks :
                mem[b] = LayoutNew("ShufflingArray") => b \in ArrayBlocks
          /\ \A t \in Threads :
                frame[t].op # "none" /\ BypassLayout(frame[t].layout) =>
                   Untouched(t) /\ pc[t] \in BypassLabels
          /\ classes_used = {} => state = NULL /\ RecordBlocks = {}
          /\ calls = 0 => Outstanding = 0 /\ state = NULL)
    /\ [][~aborted' /\ classes_used' # classes_used =>
            \E t \in Threads :
               /\ TakesStep(t) /\ pc[t] \in {"alloc", "dealloc"}
               /\ ~BypassLayout(frame[t].layout)
               /\ classes_used' =
                     classes_used \cup {ClassOf(frame[t].layout.size)}]_vars

\* Class 2's array is published and class 31's is not, after a call of
\* class 2 and while a caller owns a block of a bypass layout.
C22_Witness ==
    /\ classes_used = {2}
    /\ ClassArray(2) # NULL /\ ClassArray(31) = NULL
    /\ \E h \in held : BypassLayout(h.layout)

\* Thread t is inside a call.
InCall(t) == pc[t] # "idle"

\* C23: under fair scheduling every started call returns (or the process
\* ends in handle_alloc_error); a thread inside a call can always take a step
\* unless it is in lock() and another thread holds the lock, and that thread
\* is at its draw, which it can take; a thread in lock() does not hold the
\* lock already; so no state is a deadlock.
C23_EveryCallReturns ==
    /\ \A t \in Threads : InCall(t) ~> ~InCall(t)
    /\ [](\A t \in Threads :
            /\ InCall(t) /\ pc[t] # "lock" => ENABLED ThreadStep(t)
            /\ pc[t] = "lock" =>
                  /\ ~HoldsLock(t)
                  /\ heap[RngMutex].owner = 0 => ENABLED RandomIndexLock(t)
                  /\ heap[RngMutex].owner # 0 =>
                        /\ pc[heap[RngMutex].owner] = "draw"
                        /\ ENABLED ThreadStep(heap[RngMutex].owner))

\* A thread waits in lock() for the lock another thread holds, both calls in
\* progress.
C23_Witness ==
    \E t, u \in Threads :
       /\ pc[t] = "lock" /\ heap[RngMutex].owner = u /\ u # t
       /\ InCall(u) /\ frame[t].op = "dealloc"

====
